---- MODULE Spec2Model ----
(***************************************************************************)
(* Model of bot.py: the Ozon review bot.  One cooperative scheduler task   *)
(* (scheduled_task -> handle_reviews) polls the marketplace, replies to    *)
(* reviews, notifies Telegram and records each reply in the SQLite table   *)
(* processed_reviews; Telegram callbacks (handle_start_button -> add_user) *)
(* interleave with it at its await points.                                 *)
(*                                                                         *)
(* The scheduler's position pc names the await it is suspended in, or the  *)
(* head of the for-loop over the batch.  The log keeps warnings and errors, *)
(* and of the logging.info calls only the "already processed" skip.  The   *)
(* FSM gate of                                                             *)
(* handle_start_button (UserStates.waiting_for_start) is not modelled: the *)
(* callback is taken to be enabled for every Telegram user at any time.    *)
(***************************************************************************)
EXTENDS Integers, Sequences, FiniteSets, TLC

\* ------------------------------------------------------------------ bounds
\* Telegram users that may press Start (more than MAX_USERS, so the cap binds)
MaxUserIds == 6
\* reviews that exist on the marketplace
MaxReviews == 3
\* largest backlog total the marketplace reports
MaxTotal == 1

\* ------------------------------------------------------- program constants
MAX_USERS == 5
\* islice(reviews, 5)
BATCH == 5

\* ------------------------------------------------------------ environment
\* The outcome of one session.post: a 200 response, another status, an
\* aiohttp.ClientError, or an exception that is not a ClientError
\* (asyncio.TimeoutError: the session's total timeout).
HttpOutcomes == {"200", "non200", "ClientError", "TimeoutError"}

\* comment ids the marketplace assigns
CommentIds == {"c1", "c2"}

\* The brand key is absent from the review payload
NoBrand == "<absent>"

\* review payloads of the marketplace, by review id.  "" is an absent or
\* empty product_name, 0 an absent sku, rating 0 an absent rating.
ReviewOf(id) ==
    CASE id = 1 -> [id |-> 1, rating |-> 4, sku |-> 123, product_name |-> "",
                    brand |-> NoBrand, text |-> "great"]
      [] id = 2 -> [id |-> 2, rating |-> 0, sku |-> 0, product_name |-> "",
                    brand |-> NoBrand, text |-> "bad"]
      [] id = 3 -> [id |-> 3, rating |-> 0, sku |-> 456, product_name |-> "Diana towel",
                    brand |-> "Diana Store", text |-> "so-so"]
      [] id > 10 -> [id |-> id, rating |-> 4, sku |-> 123, product_name |-> "",
                    brand |-> NoBrand, text |-> "good"]
      [] OTHER  -> [id |-> id, rating |-> 2, sku |-> 789, product_name |-> "",
                    brand |-> NoBrand, text |-> "meh"]

\* the first item /v3/product/info/list returns for a sku
Catalog(sku) ==
    CASE sku = 123 -> [name |-> "Towel", brand |-> "Guten Morgen"]
      [] sku = 456 -> [name |-> "Diana towel", brand |-> ""]
      [] OTHER     -> [name |-> "", brand |-> ""]

\* the username a Telegram user presents: callback.from_user.username or str(user_id)
Usernames(uid) == IF uid = 1 THEN {"u1", "u1_renamed"} ELSE {"user"}

\* the ascending sequence of a finite set of integers (ORDER BY of the store / sort_dir ASC)
RECURSIVE Asc(_)
Asc(S) ==
    IF S = {} THEN <<>>
    ELSE LET m == CHOOSE x \in S : \A y \in S : x <= y
         IN  <<m>> \o Asc(S \ {m})

Min(a, b) == IF a <= b THEN a ELSE b

\* ------------------------------------------------------------------ state
VARIABLES
    tgUsers,        \* environment: Telegram users that exist
    mpReviews,      \* environment: review ids that exist on the marketplace
    blank,          \* environment: the credentials that are blank or unset in .env
    healthy,        \* environment: the marketplace answers every request with 200 and current data
    users,          \* table users: user_id -> [username, is_active]
    ledger,         \* table processed_reviews: sequence of rows in insertion order
    pc,             \* scheduler position
    outcome,        \* how the current cycle ended: "running", "returned", "faulted"
    exc,            \* the operation an exception propagated from into handle_reviews
    toNotify,       \* notify_users: the rest of active_users still to be sent to
    reviews,        \* handle_reviews: the fetched list
    idx,            \* handle_reviews: 1-based position in islice(reviews, 5)
    product_name,   \* handle_reviews locals for the current review
    brand_name,
    response_text,
    comment_id,
    log,            \* warnings and errors emitted by the scheduler's last step
    lastAdd,        \* what handle_start_button last answered
    submitted,      \* history: review ids post_comment was called for
    accepted,       \* history: review ids a comment-create request was answered 200 for
    replies,        \* history: per review, post_comment calls that returned an id (0..2)
    notified,       \* history: review ids notify_channel was called for
    channel,        \* history: per review, the messages sent to the channel (at most 2 kept)
    lastReply,      \* history: per review, the text and id of the last submission that returned an id
    cyc,            \* history of the current cycle: calls made, backlog count, users notified
    inflight,       \* history: handle_reviews calls begun and not ended, post_comment calls likewise
    reg,            \* the last direct call of add_user: its arguments, the table before, its result
    gen             \* the last direct call of generate_response: its arguments and what came of it

\* the credentials read with os.getenv(name, "")
Credentials == {"TELEGRAM_BOT_TOKEN", "NOTIFICATION_CHANNEL_ID", "OZON_TOKEN", "CLIENT_ID"}

envVars == <<tgUsers, mpReviews, blank, healthy>>
dbVars == <<users, ledger>>
cycleVars == <<pc, outcome, exc, toNotify, reviews, idx>>
localVars == <<product_name, brand_name, response_text, comment_id>>
histVars == <<submitted, accepted, replies, notified>>
vars == <<envVars, dbVars, cycleVars, localVars, log, lastAdd, histVars, channel, lastReply, cyc, inflight, reg, gen>>

\* ------------------------------------------------------------ log entries
Info(by) == [level |-> "info", by |-> by]
Warn(by) == [level |-> "warning", by |-> by]
Err(by) == [level |-> "error", by |-> by]

\* ------------------------------------------------------- response templates
\* the number of templates generate_response holds for a rating
NumTemplates(rating) ==
    CASE rating = 5 -> 6
      [] rating \in 1..4 -> 2
      [] OTHER -> 0

\* the single generic fallback "Спасибо за Вашу оценку!"
Fallback == [rating |-> 0, tmpl |-> 0, brand |-> ""]

\* no response generated yet
NoResponse == [rating |-> 0, tmpl |-> 0, brand |-> "<none>"]

\* what the morphology analyser may do when asked for the genitive of a word:
\* give the form, give None, or raise
MorphOutcomes == {"inflected", "none", "raises"}

\* first_word = product_name.split()[0].lower() if product_name else "продукт"
first_word(product) ==
    CASE product = "" -> "produkt"
      [] product = "Towel" -> "towel"
      [] product = "Diana towel" -> "diana"
      [] OTHER -> "gm"

\* the genitive computed with an exception of inflect left to propagate
first_word_genitiveNoExcept(word, m) ==
    CASE m = "inflected" -> [raised |-> FALSE, word |-> word, case |-> "gent"]
      [] m = "none" -> [raised |-> FALSE, word |-> word, case |-> "nomn"]
      [] OTHER -> [raised |-> TRUE, word |-> word, case |-> "nomn"]

\* first_word_genitive: the inflected form, or the word itself when inflect
\* returns None or raises (the bare except)
first_word_genitive(word, m) ==
    IF m = "inflected"
    THEN [raised |-> FALSE, word |-> word, case |-> "gent"]
    ELSE [raised |-> FALSE, word |-> word, case |-> "nomn"]

\* generate_response: the texts random.choice may return; every template of
\* ratings 1..5 interpolates brand_name
generate_response(rating, brand, product) ==
    IF NumTemplates(rating) = 0 THEN {Fallback}
    ELSE {[rating |-> rating, tmpl |-> k, brand |-> brand] : k \in 1..NumTemplates(rating)}

\* ------------------------------------------------------------------ ledger
\* the key lookup never matching a stored row
SelectByReviewIdNoMatch(led, rid) == {}

\* the rows of processed_reviews whose review_id is rid: the lookup on the
\* primary key, used by the SELECT and by the INSERT's uniqueness check

SelectByReviewId(led, rid) == {i \in DOMAIN led : led[i].review_id = rid}

\* is_review_processed answering "not processed" whatever the table holds
is_review_processedNever(led, rid) == FALSE

\* is_review_processed: SELECT 1 ... WHERE review_id = ?
is_review_processed(led, rid) == SelectByReviewId(led, rid) # {}

\* save_review_to_db without conn.commit(): the row is never stored
save_review_to_dbNoCommit(led, row) == [raised |-> FALSE, ledger |-> led]

\* save_review_to_db written with INSERT OR REPLACE
save_review_to_dbReplace(led, row) ==
    IF \E i \in DOMAIN led : led[i].review_id = row.review_id
    THEN [raised |-> FALSE,
          ledger |-> [i \in DOMAIN led |-> IF led[i].review_id = row.review_id THEN row ELSE led[i]]]
    ELSE [raised |-> FALSE, ledger |-> Append(led, row)]

\* save_review_to_db: a plain INSERT; review_id TEXT PRIMARY KEY makes it raise
\* sqlite3.IntegrityError on a duplicate, leaving the table unchanged
save_review_to_db(led, row) ==
    IF SelectByReviewId(led, row.review_id) # {}
    THEN [raised |-> TRUE, ledger |-> led]
    ELSE [raised |-> FALSE, ledger |-> Append(led, row)]

\* ------------------------------------------------------------------- users
ActiveCount(u) == Cardinality({i \in DOMAIN u : u[i].is_active = 1})

\* add_user with the cap test off by one
add_userOffByOne(u, user_id, username) ==
    IF ActiveCount(u) > MAX_USERS
    THEN [ok |-> FALSE, users |-> u]
    ELSE [ok |-> TRUE,
          users |-> IF user_id \in DOMAIN u THEN u
                    ELSE [i \in DOMAIN u \cup {user_id} |->
                            IF i = user_id THEN [username |-> username, is_active |-> 1]
                            ELSE u[i]]]

\* add_user written with INSERT OR REPLACE
add_userReplace(u, user_id, username) ==
    IF ActiveCount(u) >= MAX_USERS
    THEN [ok |-> FALSE, users |-> u]
    ELSE [ok |-> TRUE,
          users |-> [i \in DOMAIN u \cup {user_id} |->
                        IF i = user_id THEN [username |-> username, is_active |-> 1]
                        ELSE u[i]]]

\* add_user: reject at the cap, else INSERT OR IGNORE
add_user(u, user_id, username) ==
    IF ActiveCount(u) >= MAX_USERS
    THEN [ok |-> FALSE, users |-> u]
    ELSE [ok |-> TRUE,
          users |-> IF user_id \in DOMAIN u THEN u
                    ELSE [i \in DOMAIN u \cup {user_id} |->
                            IF i = user_id THEN [username |-> username, is_active |-> 1]
                            ELSE u[i]]]

\* the SELECT of get_active_users finding no row
get_active_usersNone(u) == << >>

\* get_active_users: SELECT user_id FROM users WHERE is_active = 1 (rowid order)
get_active_users(u) == Asc({i \in DOMAIN u : u[i].is_active = 1})

\* ------------------------------------------------------ marketplace client
\* what a request may come to
Outcomes == IF healthy THEN {"200"} ELSE HttpOutcomes

\* the sets of reviews /v1/review/list may serve: any, or, of a healthy
\* marketplace, exactly the reviews no reply was accepted for
Served ==
    IF healthy THEN {{r \in mpReviews : replies[r] = 0}} ELSE SUBSET mpReviews

\* the comment_id field of a 200 answer of /v1/review/comment/create
AnswerIds == IF healthy THEN {"c1"} ELSE CommentIds \cup {""}

\* the items of a 200 answer of /v3/product/info/list for a sku
Items(sku) == IF healthy THEN {<<Catalog(sku)>>} ELSE {<< >>, <<Catalog(sku)>>}

\* an outcome the operation's "except aiohttp.ClientError" does not catch
Propagates(o) == o \notin {"200", "non200", "ClientError"}

\* get_unprocessed_reviews_count: int(total) on 200, else 0
get_unprocessed_reviews_count(o, total) == IF o = "200" THEN total ELSE 0

\* get_unprocessed_reviews: the reviews list on 200, else []
get_unprocessed_reviews(o, body) == IF o = "200" THEN body ELSE <<>>

\* get_product_info_from_card: {} for a falsy sku (no request), the first item
\* on 200 with items, else {}
NoItem == [name |-> "", brand |-> ""]

get_product_info_from_card(sku, o, items) ==
    IF sku = 0 THEN NoItem
    ELSE IF o = "200" /\ Len(items) > 0 THEN items[1] ELSE NoItem

\* get_product_name_and_brand_by_sku: name, and brand defaulting to "Guten Morgen"
get_product_name_and_brand_by_sku(sku, o, items) ==
    LET info == get_product_info_from_card(sku, o, items)
    IN  [product_name |-> info.name,
         brand_name |-> IF info.brand = "" THEN "Guten Morgen" ELSE info.brand]

\* post_comment: result.get("comment_id", "") on 200, else ""
post_comment(o, cid) == IF o = "200" THEN cid ELSE ""

\* what post_comment logs itself
post_comment_log(o, cid) ==
    CASE o = "200" /\ cid # "" -> <<>>
      [] o = "200" /\ cid = "" -> <<Warn("post_comment")>>
      [] OTHER -> <<Err("post_comment")>>

\* ---------------------------------------------------------- notify_channel
\* the brand keywords a product name contains, lower-cased (the substring
\* tests of determine_brand)
ProductKeywords(pn) ==
    CASE pn = "Diana towel" -> {"diana"}
      [] pn = "GM towel" -> {"gm"}
      [] OTHER -> {}

\* determine_brand, with "Unknown" replaced by "Guten Morgen" (lines 288-301)
determine_brand(pn) ==
    IF "diana" \in ProductKeywords(pn) THEN "Diana"
    ELSE "Guten Morgen"

\* notify_channel: the messages it may compose.  Line 310 replaces the
\* response_text it was given by a new generate_response(rating, brand_name,
\* product_name) with the brand of determine_brand
notify_channel(sku, text, rating, pn) ==
    {[brand |-> determine_brand(pn), sku |-> sku, rating |-> rating,
      product_name |-> pn, response_text |-> t] :
        t \in generate_response(rating, determine_brand(pn), pn)}

\* no submission has returned an id
NoReply == [text |-> NoResponse, comment_id |-> ""]

\* a cycle in which nothing has been called yet and no count obtained
NoCycle == [posts |-> 0, notifs |-> 0, writes |-> 0, backlog |-> "unknown", active |-> {}, sent |-> {}]

\* add_user has not been called directly
NoAdd == [called |-> FALSE, uid |-> 0, name |-> "", before |-> << >>, ok |-> FALSE]

\* generate_response has not been called directly
NoCall == [called |-> FALSE, rating |-> 0, brand |-> "", product |-> "", morph |-> "none",
           raised |-> FALSE, text |-> NoResponse]

\* ------------------------------------------------------------------- worlds
\* The environments checked: many Telegram users with one review that cannot
\* be answered, and one Telegram user with every review.
Worlds ==
    { [users |-> 1..MaxUserIds, reviews |-> {2}],
      [users |-> {1}, reviews |-> 1..MaxReviews] }

Fresh(w) ==
    /\ tgUsers = w.users
    /\ mpReviews = w.reviews
    /\ users = << >>
    /\ ledger = << >>
    /\ outcome = "running"
    /\ exc = "none"
    /\ toNotify = << >>
    /\ reviews = << >>
    /\ idx = 0
    /\ product_name = ""
    /\ brand_name = ""
    /\ response_text = NoResponse
    /\ comment_id = ""
    /\ log = << >>
    /\ lastAdd = "none"
    /\ submitted = {}
    /\ accepted = {}
    /\ replies = [r \in w.reviews |-> 0]
    /\ notified = {}
    /\ channel = [r \in w.reviews |-> << >>]
    /\ lastReply = [r \in w.reviews |-> NoReply]
    /\ cyc = NoCycle
    /\ gen = NoCall
    /\ reg = NoAdd

\* the process runs with every credential set and has reached its first cycle
InitIn(w) ==
    /\ Fresh(w)
    /\ blank = {}
    /\ healthy = FALSE
    /\ inflight = [cycles |-> 1, posts |-> 0]
    /\ pc = "count"

\* main: init_db() creates the empty tables, then scheduled_task starts its first cycle
Init == \E w \in Worlds : InitIn(w)


\* --------------------------------------------------------- handle_reviews
\* rating = review.get("rating", 0) or 1
Rating(review) == IF review.rating = 0 THEN 1 ELSE review.rating

\* brand_name = review.get("brand", "Guten Morgen")
ReviewBrand(review) == IF review.brand = NoBrand THEN "Guten Morgen" ELSE review.brand

\* the review the loop is at
Current == ReviewOf(reviews[idx])

\* the loop running over the whole fetched list
BatchLenAll == Len(reviews)

\* the end of islice(reviews, 5)
BatchLen == Min(Len(reviews), BATCH)

\* "if not product_name: ... continue" tested as always having a product
HasProductIdentityAlways(pn) == TRUE

\* line 461: the review can be answered only with a product name
HasProductIdentity(pn) == pn # ""

\* "if comment_id:" tested as always true
SubmissionSucceededAlways(cid) == TRUE

\* line 470: a non-empty comment id is a successful submission
SubmissionSucceeded(cid) == cid # ""

\* the for-loop moves to the next review of the batch
NextReview ==
    /\ idx' = idx + 1
    /\ pc' = "loop"
    /\ product_name' = ""
    /\ brand_name' = ""
    /\ response_text' = NoResponse
    /\ comment_id' = ""

\* scheduled_task without its try/except: the task dies with the exception
scheduled_taskNoCatch(raised) == IF raised THEN "dead" ELSE "sleep"

\* scheduled_task: whether handle_reviews returned or raised, sleep comes next
scheduled_task(raised) == "sleep"

\* handle_reviews returns
Return ==
    /\ pc' = scheduled_task(FALSE)
    /\ outcome' = "returned"
    /\ inflight' = [inflight EXCEPT !.cycles = @ - 1]

\* an exception raised in `by` escapes handle_reviews; scheduled_task logs it
Fault(by) ==
    /\ pc' = scheduled_task(TRUE)
    /\ outcome' = "faulted"
    /\ exc' = by
    /\ log' = <<Err("scheduled_task")>>
    /\ inflight' = [inflight EXCEPT !.cycles = @ - 1,
                                    !.posts = IF by = "post_comment" THEN @ - 1 ELSE @]
    /\ UNCHANGED <<channel, lastReply, cyc, reg, gen, envVars, dbVars, toNotify, reviews, idx, localVars, lastAdd, histVars>>

\* lines 461-469: skip a review without product name, else generate the
\* response and call post_comment; pre is what the step logged before
Respond(review, pn, bn, pre) ==
    IF ~HasProductIdentity(pn)
    THEN /\ log' = pre \o <<Warn("handle_reviews")>>
         /\ NextReview
         /\ UNCHANGED <<submitted, cyc, inflight>>
    ELSE \E t \in generate_response(Rating(review), bn, pn) :
            /\ product_name' = pn
            /\ brand_name' = bn
            /\ response_text' = t
            /\ comment_id' = ""
            /\ pc' = "post"
            /\ idx' = idx
            /\ submitted' = submitted \cup {review.id}
            /\ cyc' = [cyc EXCEPT !.posts = @ + 1]
            /\ inflight' = [inflight EXCEPT !.posts = @ + 1]
            /\ log' = pre

\* await get_unprocessed_reviews_count, then notify_users reads the active users
GetCount ==
    /\ pc = "count"
    /\ \E o \in Outcomes, t \in 0..MaxTotal :
        IF Propagates(o)
        THEN \* caught by handle_reviews' own try/except: log and return
             /\ Return
             /\ exc' = "get_unprocessed_reviews_count"
             /\ log' = <<Err("handle_reviews")>>
             /\ UNCHANGED <<toNotify, cyc>>
        ELSE LET total == get_unprocessed_reviews_count(o, t)
                 active == IF total > 0 THEN get_active_users(users) ELSE << >>
             IN  /\ toNotify' = active
                 /\ pc' = IF active = << >> THEN "fetch" ELSE "notify_users"
                 /\ log' = IF o = "200" THEN << >>
                           ELSE <<Err("get_unprocessed_reviews_count")>>
                 /\ cyc' = [cyc EXCEPT !.backlog = IF total > 0 THEN "some" ELSE "none",
                                        !.active = {u \in DOMAIN users : users[u].is_active = 1}]
                 /\ UNCHANGED <<outcome, exc, inflight>>
    /\ UNCHANGED <<channel, lastReply, reg, gen, envVars, dbVars, reviews, idx, localVars, lastAdd, histVars>>

\* notify_users: await bot.send_message to the next active user; a failure is logged
NotifyUser ==
    /\ pc = "notify_users"
    /\ \E ok \in BOOLEAN :
        log' = IF ok THEN << >> ELSE <<Err("notify_users")>>
    /\ toNotify' = Tail(toNotify)
    /\ cyc' = [cyc EXCEPT !.sent = @ \cup {Head(toNotify)}]
    /\ pc' = IF Tail(toNotify) = << >> THEN "fetch" ELSE "notify_users"
    /\ UNCHANGED <<channel, lastReply, inflight, reg, gen, envVars, dbVars, outcome, exc, reviews, idx, localVars, lastAdd, histVars>>

\* await get_unprocessed_reviews; an empty list ends the cycle
GetReviews ==
    /\ pc = "fetch"
    /\ \E o \in Outcomes, S \in Served :
        IF Propagates(o)
        THEN Fault("get_unprocessed_reviews")
        ELSE LET rs == get_unprocessed_reviews(o, Asc(S))
             IN  /\ log' = IF o = "200" THEN << >> ELSE <<Err("get_unprocessed_reviews")>>
                 /\ IF rs = << >>
                    THEN Return /\ UNCHANGED <<reviews, idx>>
                    ELSE /\ reviews' = rs
                         /\ idx' = 1
                         /\ pc' = "loop"
                         /\ UNCHANGED <<outcome, inflight>>
                 /\ UNCHANGED <<channel, lastReply, cyc, reg, gen, envVars, dbVars, exc, toNotify, localVars, lastAdd, histVars>>

\* the head of "for review in islice(reviews, 5)": lines 442-459
ReviewHead ==
    /\ pc = "loop"
    /\ IF idx > BatchLen
       THEN /\ Return
            /\ log' = << >>
            /\ UNCHANGED <<idx, localVars, submitted, cyc>>
       ELSE IF is_review_processed(ledger, Current.id)
       THEN \* "already processed, skipping"
            /\ NextReview
            /\ log' = <<Info("handle_reviews")>>
            /\ UNCHANGED <<outcome, submitted, cyc, inflight>>
       ELSE IF Current.product_name = "" /\ Current.sku # 0
       THEN /\ pc' = "lookup"
            /\ log' = << >>
            /\ UNCHANGED <<outcome, idx, localVars, submitted, cyc, inflight>>
       ELSE /\ Respond(Current, Current.product_name, ReviewBrand(Current), << >>)
            /\ UNCHANGED outcome
    /\ UNCHANGED <<channel, lastReply, reg, gen, envVars, dbVars, exc, toNotify, reviews, lastAdd, accepted, replies, notified>>

\* await get_product_name_and_brand_by_sku(sku, session)
GetProduct ==
    /\ pc = "lookup"
    /\ \E o \in Outcomes, items \in Items(Current.sku) :
        IF Propagates(o)
        THEN Fault("get_product_info_from_card")
        ELSE LET r == get_product_name_and_brand_by_sku(Current.sku, o, items)
                 pre == IF o = "200" /\ Len(items) > 0 THEN << >>
                        ELSE <<Err("get_product_info_from_card")>>
             IN  /\ Respond(Current, r.product_name, r.brand_name, pre)
                 /\ UNCHANGED <<channel, lastReply, reg, gen, envVars, dbVars, outcome, exc, toNotify, reviews,
                                lastAdd, accepted, replies, notified>>

\* await post_comment(review_id, response_text, session): lines 469-477
PostComment ==
    /\ pc = "post"
    /\ \E o \in Outcomes, cid \in AnswerIds :
        IF Propagates(o)
        THEN Fault("post_comment")
        ELSE LET c == post_comment(o, cid)
             IN  /\ accepted' = IF o = "200" THEN accepted \cup {Current.id} ELSE accepted
                 /\ replies' = IF c # ""
                               THEN [replies EXCEPT ![Current.id] = Min(@ + 1, 2)]
                               ELSE replies
                 /\ IF SubmissionSucceeded(c)
                    THEN /\ comment_id' = c
                         /\ pc' = "notify_channel"
                         /\ log' = post_comment_log(o, cid)
                         /\ UNCHANGED <<idx, product_name, brand_name, response_text>>
                    ELSE /\ log' = post_comment_log(o, cid) \o <<Err("handle_reviews")>>
                         /\ NextReview
                 /\ lastReply' = IF c # ""
                                 THEN [lastReply EXCEPT ![Current.id] =
                                          [text |-> response_text, comment_id |-> c]]
                                 ELSE lastReply
                 /\ inflight' = [inflight EXCEPT !.posts = @ - 1]
                 /\ UNCHANGED <<channel, cyc, reg, gen, envVars, dbVars, outcome, exc, toNotify, reviews,
                                lastAdd, submitted, notified>>

\* notify_channel: await bot.send_message to the channel; a failure is logged
NotifyChannel ==
    /\ pc = "notify_channel"
    /\ \E ok \in BOOLEAN :
        log' = IF ok THEN << >> ELSE <<Err("notify_channel")>>
    /\ notified' = notified \cup {Current.id}
    /\ \E m \in notify_channel(Current.sku, response_text, Rating(Current), product_name) :
        channel' = [channel EXCEPT ![Current.id] = IF Len(@) < 2 THEN Append(@, m) ELSE @]
    /\ cyc' = [cyc EXCEPT !.notifs = @ + 1]
    /\ pc' = "save"
    /\ UNCHANGED <<lastReply, inflight, reg, gen, envVars, dbVars, outcome, exc, toNotify, reviews, idx, localVars,
                   lastAdd, submitted, accepted, replies>>

\* the row built with the rating as the payload gives it
RowRawRating ==
    [review_id |-> Current.id, sku |-> Current.sku, product_name |-> product_name,
     user_name |-> "Anonymous", review_text |-> Current.text,
     rating |-> Current.rating, response_text |-> response_text,
     comment_id |-> comment_id]

\* the row handle_reviews passes to save_review_to_db (line 475)
Row ==
    [review_id |-> Current.id, sku |-> Current.sku, product_name |-> product_name,
     user_name |-> "Anonymous", review_text |-> Current.text,
     rating |-> Rating(Current), response_text |-> response_text,
     comment_id |-> comment_id]

\* save_review_to_db(...), then the loop goes on
SaveReview ==
    /\ pc = "save"
    /\ LET r == save_review_to_db(ledger, Row)
       IN  IF r.raised
           THEN Fault("save_review_to_db")
           ELSE /\ ledger' = r.ledger
                /\ cyc' = [cyc EXCEPT !.writes = @ + 1]
                /\ NextReview
                /\ log' = << >>
                /\ UNCHANGED <<channel, lastReply, inflight, reg, gen, envVars, users, outcome, exc, toNotify, reviews,
                               lastAdd, histVars>>

\* the loop of scheduled_task goes on without awaiting handle_reviews
AwaitedNever(p) == TRUE

\* "await handle_reviews(session)": the loop of scheduled_task goes on only
\* when the call has returned or raised
Awaited(p) == p = "sleep"

\* await asyncio.sleep(CHECK_INTERVAL), then the next handle_reviews starts
Sleep ==
    /\ Awaited(pc)
    /\ pc' = "count"
    /\ outcome' = "running"
    /\ exc' = "none"
    /\ toNotify' = << >>
    /\ reviews' = << >>
    /\ idx' = 0
    /\ product_name' = ""
    /\ brand_name' = ""
    /\ response_text' = NoResponse
    /\ comment_id' = ""
    /\ log' = << >>
    /\ cyc' = NoCycle
    /\ inflight' = [inflight EXCEPT !.cycles = @ + 1]
    /\ UNCHANGED <<channel, lastReply, reg, gen, envVars, dbVars, lastAdd, histVars>>

\* ------------------------------------------------------------ Telegram bot
\* handle_start_button: add_user, then the answer
HandleStartButton ==
    /\ pc \notin {"boot", "refused"}
    /\ \E uid \in tgUsers : \E name \in Usernames(uid) :
        LET r == add_user(users, uid, name)
        IN  /\ users' = r.users
            /\ lastAdd' = IF r.ok THEN "accepted" ELSE "rejected"
    /\ UNCHANGED <<channel, lastReply, cyc, inflight, reg, gen, envVars, ledger, cycleVars, localVars, log, histVars>>

\* ----------------------------------------------------------- specification
Scheduler ==
    \/ GetCount
    \/ NotifyUser
    \/ GetReviews
    \/ ReviewHead
    \/ GetProduct
    \/ PostComment
    \/ NotifyChannel
    \/ SaveReview
    \/ Sleep

Next == Scheduler \/ HandleStartButton

Spec == Init /\ [][Next]_vars

\* ------------------------------------------------------------------- types
TypeOK ==
    /\ DOMAIN users \subseteq tgUsers
    /\ pc \in {"boot", "refused", "count", "notify_users", "fetch", "loop", "lookup", "post",
               "notify_channel", "save", "sleep"}
    /\ blank \subseteq Credentials
    /\ outcome \in {"running", "returned", "faulted"}
    /\ idx \in 0..(BATCH + 1)
    /\ submitted \subseteq mpReviews
    /\ notified \subseteq mpReviews
    /\ \A r \in mpReviews : replies[r] \in 0..2


\* the scheduler's steps are taken whenever they stay possible: every await
\* of the task completes (a response, an exception or the transport's
\* timeout) and asyncio.sleep elapses
LiveSpec == Spec /\ WF_vars(Scheduler)

\* ------------------------------------------------------------------ claims
InLedger(rid) == \E i \in DOMAIN ledger : ledger[i].review_id = rid

RowsOf(rid) == {i \in DOMAIN ledger : ledger[i].review_id = rid}

\* the scheduler is inside the processing of the current review, past the ledger check
InFlight == pc \in {"lookup", "post", "notify_channel", "save"}

\* the number of entries e in the sequence l
CountOf(l, e) == Cardinality({i \in DOMAIN l : l[i] = e})

\* C1: in every reachable state the table processed_reviews holds at most one
\* row per review identifier.
C1_OneRecordPerReview ==
    \A i, j \in DOMAIN ledger :
        ledger[i].review_id = ledger[j].review_id => i = j

\* C1 witness: two reviews are recorded and one of them, fetched again in a
\* later cycle, has just been passed over
C1_Witness ==
    /\ Len(ledger) = 2
    /\ pc = "loop"
    /\ idx = 2
    /\ log = <<Info("handle_reviews")>>
    /\ InLedger(reviews[1])

\* C2: once a submission for a review returned a comment id, handling the same
\* fetched review again yields no second submission and no second record:
\* a review has at most one successful submission, a recorded review has
\* exactly one row and exactly one successful submission, and post_comment is
\* not called again for a review that has one.
C2_Idempotent ==
    /\ \A r \in mpReviews :
        /\ replies[r] <= 1
        /\ InLedger(r) => (replies[r] = 1 /\ Cardinality(RowsOf(r)) = 1)
    /\ pc = "post" => replies[Current.id] = 0

\* C2 witness: the second pass over a recorded review skipped it
C2_Witness ==
    /\ pc = "loop"
    /\ idx > 1
    /\ log = <<Info("handle_reviews")>>
    /\ replies[reviews[idx - 1]] = 1
    /\ Cardinality(RowsOf(reviews[idx - 1])) = 1

\* C3: the ledger is checked first: while the scheduler looks up the product,
\* submits the reply, notifies or writes the ledger for a review, that review
\* has no row in the ledger.
C3_LedgerCheckedFirst ==
    InFlight => ~InLedger(Current.id)

\* C3 witness: a reply is being submitted for a review while another review
\* of the same batch, already recorded, was passed over
C3_Witness ==
    /\ pc = "post"
    /\ idx > 1
    /\ \E i \in 1..(idx - 1) : InLedger(reviews[i])
    /\ ~InLedger(Current.id)

\* C4: when post_comment returns the empty string, that step sends no
\* notification, writes no ledger row, logs exactly one error in
\* handle_reviews and moves on to the next review of the batch.
C4_EmptyCommentIdRecordsNothing ==
    [][ (pc = "post" /\ pc' # "post" /\ outcome' = "running" /\ comment_id' = "")
        => /\ notified' = notified
           /\ ledger' = ledger
           /\ pc' = "loop"
           /\ idx' = idx + 1
           /\ CountOf(log', Err("handle_reviews")) = 1 ]_vars

\* C4 witness: post_comment failed for the first review of a batch of two and
\* the loop stands at the second
C4_Witness ==
    /\ pc = "loop"
    /\ idx = 2
    /\ Len(reviews) = 2
    /\ log = <<Err("post_comment"), Err("handle_reviews")>>
    /\ reviews[1] \in submitted
    /\ reviews[1] \notin notified
    /\ ~InLedger(reviews[1])

\* C5: a review whose submission returned a comment id is notified and then
\* recorded before the loop leaves it (the write comes after the
\* notification), and a row or a notification exists only for a review whose
\* submission returned a comment id.
C5_NotifyThenRecord ==
    /\ \A r \in mpReviews :
        /\ InLedger(r) => r \in notified
        /\ r \in notified => replies[r] >= 1
        /\ replies[r] >= 1 =>
              \/ InLedger(r) /\ r \in notified
              \/ pc \in {"notify_channel", "save"} /\ Current.id = r
    /\ pc = "save" => Current.id \in notified /\ ~InLedger(Current.id)

\* C5 witness: the notification for the current review is out and its row is
\* about to be written
C5_Witness ==
    /\ pc = "save"
    /\ comment_id # ""
    /\ Current.id \in notified
    /\ replies[Current.id] = 1

\* C6: the number of active recipients never exceeds MAX_USERS, and a
\* registration is rejected only at the cap.
C6_UsersCapped ==
    /\ ActiveCount(users) <= MAX_USERS
    /\ lastAdd = "rejected" => ActiveCount(users) = MAX_USERS

\* C6 witness: MAX_USERS users are registered and a further Start was
\* rejected while a cycle was notifying users
C6_Witness ==
    /\ ActiveCount(users) = MAX_USERS
    /\ lastAdd = "rejected"
    /\ pc = "notify_users"

\* a review that can never be answered on this marketplace: no product name,
\* and no sku or a sku whose card has no name
Unanswerable(r) ==
    /\ ReviewOf(r).product_name = ""
    /\ ReviewOf(r).sku = 0 \/ Catalog(ReviewOf(r).sku).name = ""

\* C7: a review without product identity is skipped in every cycle: no reply
\* is ever submitted, no notification sent and no row written for it, and a
\* reply is only ever submitted with a product name in hand.
C7_NoIdentitySkipped ==
    /\ \A r \in mpReviews :
          Unanswerable(r) =>
              r \notin submitted /\ r \notin notified /\ ~InLedger(r) /\ replies[r] = 0
    /\ pc \in {"post", "notify_channel", "save"} => product_name # ""

\* C7 witness: in a later cycle (another review is recorded already) the
\* review without product identity was fetched alone and skipped with a warning
C7_Witness ==
    /\ Len(ledger) >= 1
    /\ reviews = <<2>>
    /\ pc = "loop"
    /\ idx = 2
    /\ log = <<Warn("handle_reviews")>>

\* C8: no cycle ends the scheduler loop: after a cycle that returned or
\* faulted the loop sleeps and starts the next one, so cycles start
\* infinitely often.
C8_CyclesForever ==
    /\ []<>(pc = "count")
    /\ (pc = "sleep") ~> (pc = "count")

\* C8 witness: a cycle faulted, scheduled_task logged it and sleeps
C8_Witness ==
    /\ outcome = "faulted"
    /\ pc = "sleep"
    /\ log = <<Err("scheduled_task")>>

\* C9: a failure in one review of the batch does not keep the remaining
\* reviews of the batch from being processed in the same cycle: a cycle that
\* fetched a batch ends only once the loop has reached the last review of it.
C9_BatchCompleted ==
    (pc = "sleep" /\ reviews # << >>) => idx >= BatchLen

\* C10: no marketplace operation lets a fault through to handle_reviews.
C10_NoFaultFromMarketplace ==
    exc \notin {"get_unprocessed_reviews_count", "get_unprocessed_reviews",
                "get_product_info_from_card", "post_comment"}


\* the row of the ledger for a recorded review
RowOf(r) == ledger[CHOOSE i \in RowsOf(r) : TRUE]

MaxRating == 7
GenRatings == (0 - 1)..MaxRating
GenBrands == {"Guten Morgen", "Diana"}
GenProducts == {"", "Towel", "Diana towel"}

\* one call generate_response(rating, brand, product) with the analyser behaving as m
Generate ==
    \E rating \in GenRatings, brand \in GenBrands, product \in GenProducts, m \in MorphOutcomes :
        /\ IF first_word_genitive(first_word(product), m).raised
           THEN gen' = [called |-> TRUE, rating |-> rating, brand |-> brand, product |-> product,
                        morph |-> m, raised |-> TRUE, text |-> NoResponse]
           ELSE \E t \in generate_response(rating, brand, product) :
                    gen' = [called |-> TRUE, rating |-> rating, brand |-> brand, product |-> product,
                            morph |-> m, raised |-> FALSE, text |-> t]
        /\ UNCHANGED <<envVars, dbVars, cycleVars, localVars, log, lastAdd, histVars, channel, lastReply, cyc, inflight, reg>>

GenSpec == Init /\ [][Generate]_vars

\* C12: a call of generate_response never raises, whatever the analyser does;
\* for a rating in 1..5 it returns one of that rating's templates, which names
\* the brand it was given; for any other rating it returns the one fallback
\* text, which names no brand.
C12_ResponseForEveryRating ==
    gen.called =>
        /\ ~gen.raised
        /\ gen.rating \in 1..5 =>
               /\ gen.text.rating = gen.rating
               /\ gen.text.tmpl >= 1
               /\ gen.text.brand = gen.brand
        /\ gen.rating \notin 1..5 => gen.text = [rating |-> 0, tmpl |-> 0, brand |-> ""]

\* C12 witness: the analyser raised on the genitive of a rating-1 review's
\* product word and the reply still names the brand
C12_Witness ==
    /\ gen.called
    /\ gen.morph = "raises"
    /\ gen.rating = 1
    /\ gen.brand = "Diana"
    /\ gen.text.brand = "Diana"


\* ------------------------------------------------------------------ start-up
\* whether the process stops before main runs: bot.py checks no credential;
\* Bot(token=...) of aiogram rejects a token that is not of the form id:secret
StartRefused(B) == "TELEGRAM_BOT_TOKEN" \in B

\* the module is imported and main starts the scheduler and the polling
Main ==
    /\ pc = "boot"
    /\ pc' = IF StartRefused(blank) THEN "refused" ELSE "count"
    /\ inflight' = [inflight EXCEPT !.cycles = IF StartRefused(blank) THEN 0 ELSE 1]
    /\ UNCHANGED <<channel, lastReply, cyc, reg, gen, envVars, dbVars, outcome, exc, toNotify, reviews, idx,
                   localVars, log, lastAdd, histVars>>

\* one review that needs the product card, one Telegram user
ConfigWorld == [users |-> {1}, reviews |-> {1}]

\* at most one credential is blank
ConfigInit ==
    /\ Fresh(ConfigWorld)
    /\ pc = "boot"
    /\ healthy = FALSE
    /\ inflight = [cycles |-> 0, posts |-> 0]
    /\ \E B \in {{}} \cup {{c} : c \in Credentials} : blank = B

ConfigSpec == ConfigInit /\ [][Main \/ Next]_vars

\* C13: with a required credential blank the process refuses to start: once
\* start-up is over, the process is not running.
C13_BlankCredentialRefused ==
    (blank # {} /\ pc # "boot") => pc = "refused"


\* ------------------------------------------------------- a backlog over the batch
\* one more answerable review than a cycle takes, one Telegram user
BatchWorld == [users |-> {1}, reviews |-> 11..(11 + BATCH)]

\* a healthy marketplace holding the backlog
BatchInit ==
    /\ Fresh(BatchWorld)
    /\ blank = {}
    /\ healthy = TRUE
    /\ inflight = [cycles |-> 1, posts |-> 0]
    /\ pc = "count"

BatchSpec == BatchInit /\ [][Next]_vars

\* C14: a cycle goes through the first 5 reviews of the fetched list only: it
\* makes at most 5 post_comment calls, 5 channel notifications and 5 ledger
\* writes, and never stands at a review past the fifth.
C14_AtMostFivePerCycle ==
    /\ cyc.posts <= 5
    /\ cyc.notifs <= 5
    /\ cyc.writes <= 5
    /\ InFlight => idx <= 5

\* C14 witness: a cycle that fetched 6 reviews ended after 5 replies, 5
\* notifications and 5 writes, the sixth review left alone
C14_Witness ==
    /\ pc = "sleep"
    /\ Len(reviews) = 6
    /\ cyc.posts = 5
    /\ cyc.notifs = 5
    /\ cyc.writes = 5
    /\ reviews[6] \notin submitted


\* C15: the scheduler is one thread of control: at most one handle_reviews call
\* is active at any time, and at most one post_comment call is awaiting its
\* answer, inside the active cycle.
C15_OneCycleOneSubmission ==
    /\ inflight.cycles <= 1
    /\ inflight.posts <= 1
    /\ inflight.posts = 1 => (inflight.cycles = 1 /\ pc = "post")

\* C15 witness: the submission for the second review of a batch is awaited
\* after the first review's reply was accepted
C15_Witness ==
    /\ inflight.cycles = 1
    /\ inflight.posts = 1
    /\ idx = 2
    /\ replies[reviews[1]] > 0


\* C16: a cycle first obtains the backlog count; with a count above zero every
\* user active at that moment is sent the backlog notification before any
\* review is fetched, answered or recorded; with a count of zero no user is.
C16_BacklogNotifiedFirst ==
    /\ pc \notin {"boot", "refused", "count", "sleep"} => cyc.backlog # "unknown"
    /\ (pc = "notify_users" \/ cyc.backlog = "unknown") =>
            (reviews = << >> /\ cyc.posts = 0 /\ cyc.writes = 0)
    /\ (cyc.backlog = "some" /\ pc # "notify_users") => cyc.sent = cyc.active
    /\ cyc.sent \subseteq cyc.active
    /\ cyc.backlog # "some" => cyc.sent = {}

\* C16 witness: five users were active when a backlog was counted, all five
\* were sent the notification, and the cycle went on to the fetched reviews
C16_Witness ==
    /\ cyc.backlog = "some"
    /\ Cardinality(cyc.active) = MAX_USERS
    /\ cyc.sent = cyc.active
    /\ pc = "loop"

\* C16 witness of the other case: nothing counted, nobody notified, a review answered
C16_WitnessZero ==
    /\ cyc.backlog = "none"
    /\ cyc.active # {}
    /\ cyc.writes > 0


\* ------------------------------------------------------------------ restart
\* init_db with DROP TABLE before each CREATE TABLE
init_dbRecreate(db) == [users |-> << >>, ledger |-> << >>]

\* init_db: CREATE TABLE IF NOT EXISTS for both tables leaves existing tables as they are
init_db(db) == db

\* the process is stopped at any point and started again on the same database
\* file: main calls init_db and scheduled_task starts a first cycle
Restart ==
    /\ pc \notin {"boot", "refused"}
    /\ LET db == init_db([users |-> users, ledger |-> ledger])
       IN  /\ users' = db.users
           /\ ledger' = db.ledger
    /\ pc' = "count"
    /\ outcome' = "running"
    /\ exc' = "none"
    /\ toNotify' = << >>
    /\ reviews' = << >>
    /\ idx' = 0
    /\ product_name' = ""
    /\ brand_name' = ""
    /\ response_text' = NoResponse
    /\ comment_id' = ""
    /\ log' = << >>
    /\ cyc' = NoCycle
    /\ inflight' = [cycles |-> 1, posts |-> 0]
    /\ UNCHANGED <<channel, lastReply, reg, gen, envVars, lastAdd, histVars>>

\* two answerable reviews, one Telegram user
RestartWorld == [users |-> {2}, reviews |-> {1, 3}]

RestartInit == InitIn(RestartWorld)

RestartSpec == RestartInit /\ [][Next \/ Restart]_vars

\* C17: the ledger only grows: whatever step is taken (a cycle's step, a
\* registration, a restart with its init_db) every row stays where it was,
\* with its content.
C17_LedgerAppendOnly ==
    [][\A i \in DOMAIN ledger : i \in DOMAIN ledger' /\ ledger'[i] = ledger[i]]_vars

\* C17 witness: the process was restarted between an accepted reply for review
\* 3 and its recording, and the row of review 1 written before is still there
C17_Witness ==
    /\ pc = "count"
    /\ InLedger(1)
    /\ replies[3] > 0
    /\ ~InLedger(3)


\* ------------------------------------------------- a second writer of the table
\* another process on the same ozon_reviews.db records the review the
\* scheduler is working on, after the scheduler's is_review_processed
ForeignInsert ==
    /\ InFlight
    /\ ~InLedger(Current.id)
    /\ ledger' = Append(ledger,
                    [review_id |-> Current.id, sku |-> Current.sku, product_name |-> "Towel",
                     user_name |-> "Anonymous", review_text |-> Current.text,
                     rating |-> Rating(Current), response_text |-> Fallback,
                     comment_id |-> "foreign"])
    /\ UNCHANGED <<channel, lastReply, cyc, inflight, reg, gen, envVars, users, cycleVars, localVars,
                   log, lastAdd, histVars>>

\* one review that needs the product card, one Telegram user
DupWorld == [users |-> {2}, reviews |-> {1}]

DupInit == InitIn(DupWorld)

DupSpec == DupInit /\ [][Next \/ ForeignInsert]_vars

\* C18: save_review_to_db called for a review_id the table already holds
\* fails: the table is left exactly as it was (the existing row unchanged, no
\* second row), the exception ends the cycle and scheduled_task logs an error.
C18_DuplicateSaveFails ==
    [][(pc = "save" /\ pc' # "save" /\ InLedger(Current.id)) =>
            /\ ledger' = ledger
            /\ outcome' = "faulted"
            /\ exc' = "save_review_to_db"
            /\ \E i \in DOMAIN log' : log'[i].level = "error"]_vars

\* C18 witness: the cycle ended on the failed save; the table holds the one
\* row of the other writer
C18_Witness ==
    /\ outcome = "faulted"
    /\ exc = "save_review_to_db"
    /\ Cardinality(RowsOf(1)) = 1
    /\ RowOf(1).comment_id = "foreign"
    /\ comment_id \in CommentIds


\* ------------------------------------------------------ add_user, called directly
\* one call add_user(uid, name) on the table as it stands
AddUser ==
    /\ \E uid \in tgUsers : \E name \in Usernames(uid) :
        LET r == add_user(users, uid, name)
        IN  /\ users' = r.users
            /\ reg' = [called |-> TRUE, uid |-> uid, name |-> name, before |-> users, ok |-> r.ok]
    /\ UNCHANGED <<channel, lastReply, cyc, inflight, gen, envVars, ledger, cycleVars, localVars,
                   log, lastAdd, histVars>>

UserSpec == Init /\ [][AddUser]_vars

\* the users of a table that are active
ActiveIn(u) == {i \in DOMAIN u : u[i].is_active = 1}

\* C19: add_user(uid, name) on a table with 5 or more active users returns
\* false and leaves the table as it was; otherwise it returns true and uid is
\* active afterwards: a row (uid, name) was inserted if uid was absent, and
\* nothing changed, the username included, if uid was present.
C19_AddUserContract ==
    reg.called =>
        IF Cardinality(ActiveIn(reg.before)) >= 5
        THEN ~reg.ok /\ users = reg.before
        ELSE /\ reg.ok
             /\ reg.uid \in ActiveIn(users)
             /\ reg.uid \in DOMAIN reg.before => users = reg.before
             /\ reg.uid \notin DOMAIN reg.before =>
                    /\ DOMAIN users = DOMAIN reg.before \cup {reg.uid}
                    /\ users[reg.uid].username = reg.name
                    /\ \A i \in DOMAIN reg.before : users[i] = reg.before[i]

\* C19 witness: user 1, registered as "u1", calls again under another
\* username: accepted, and the stored username is still "u1"
C19_Witness ==
    /\ reg.called
    /\ reg.ok
    /\ reg.uid = 1
    /\ reg.name = "u1_renamed"
    /\ users[1].username = "u1"

\* C19 witness of the refusal: a sixth user calls with five active
C19_WitnessCap ==
    /\ reg.called
    /\ ~reg.ok
    /\ reg.uid \notin DOMAIN users
    /\ Cardinality(ActiveIn(users)) = 5


\* C20: the response text of a review's channel notification is the text that
\* post_comment submitted and the ledger row stores, naming the same brand.
C20_NotificationCarriesReply ==
    \A r \in mpReviews :
        \A k \in DOMAIN channel[r] :
            /\ channel[r][k].response_text = lastReply[r].text
            /\ InLedger(r) => channel[r][k].response_text = RowOf(r).response_text
            /\ channel[r][k].brand = lastReply[r].text.brand


\* C21: at the end of each cycle every review whose comment-create request
\* was answered 200 has a ledger row, and every ledger row is of such a
\* review: the replied reviews and the ledger's identifiers coincide.
C21_AcceptedRepliesRecorded ==
    pc = "sleep" => {r \in mpReviews : InLedger(r)} = accepted


\* ------------------------------------------- oldest-first polling of a backlog
\* a review that was answered in the first cycle, then as many reviews without
\* product identity as a cycle takes (review 2 has no sku, the card of sku 789
\* has no name), then an answerable review, younger than all of them
StarveWorld == [users |-> {2}, reviews |-> {1, 2} \cup 4..(BATCH + 2) \cup {11}]

\* a healthy marketplace: every request is answered 200, the list is the
\* still-unprocessed reviews in ascending order, every reply is accepted
StarveInit ==
    /\ Fresh(StarveWorld)
    /\ blank = {}
    /\ healthy = TRUE
    /\ inflight = [cycles |-> 1, posts |-> 0]
    /\ pc = "count"

StarveSpec == StarveInit /\ [][Next]_vars /\ WF_vars(Scheduler)

\* a review has a product identity: a product name, or a sku whose card has one
Answerable(r) ==
    \/ ReviewOf(r).product_name # ""
    \/ ReviewOf(r).sku # 0 /\ Catalog(ReviewOf(r).sku).name # ""

\* C22: with the marketplace serving the still-unprocessed reviews oldest
\* first and accepting every reply, every review that has a product identity
\* is eventually replied to and recorded, whatever precedes it in the list.
C22_AnswerableEventuallyRecorded ==
    <>(\A r \in mpReviews : Answerable(r) => (replies[r] > 0 /\ InLedger(r)))

====
